---- MODULE Spec2Model ----
(***************************************************************************)
(* Model of the ObjectBucketClaim reconciler                               *)
(* (pkg/provisioner/reconciler/claim-reconciler/reconiler.go).             *)
(*                                                                         *)
(* One claim identity (namespace+name) is modelled.  The store holds, for  *)
(* that identity, the claim (OBC), the binding (ObjectBucket, OB), the     *)
(* credentials record (Secret) and the connection-info record (ConfigMap), *)
(* plus the storage class the claim references.  A reconciliation pass is  *)
(* one call of Reconcile; every store call and every plugin call of a pass *)
(* is one atomic step, so that passes can interleave and the intermediate  *)
(* states of a pass are visible.                                           *)
(***************************************************************************)
EXTENDS Integers, Sequences, FiniteSets, TLC

\* ---------------------------------------------------------------- bounds
MaxPasses == 3      \* Reconcile calls per behaviour
MaxFaults == 2      \* injected store / plugin failures per behaviour
MaxClaims == 2      \* times the user creates the claim

Procs == {1, 2}     \* workers that may run Reconcile on the claim identity
Nil    == [nil |-> TRUE]  \* Go nil pointer / absent record
NilErr == "nil"            \* Go nil error
Kinds == {"ob", "secret", "cm"}

\* ---------------------------------------------------------------- strings
\* A string is a sequence of one-letter strings; ToLower is strings.ToLower.
LowerOf(c) == CASE c = "O" -> "o" [] c = "B" -> "b" [] OTHER -> c
ToLower(s) == [i \in 1..Len(s) |-> LowerOf(s[i])]
RegisteredNames == { <<"O", "b">>, <<"o", "b">> }
ClassProvisioners == { <<"O", "b">>, <<"o", "b">>, <<"x">> }

\* ---------------------------------------------------------------- errors
\* Error values.  "Wrapped" is the plain error fmt.Errorf("...%v", err) makes:
\* it no longer carries the API status of the error it was formatted from.
Wrap(e)           == IF e = NilErr THEN NilErr ELSE "Wrapped"
IsNotFound(e)     == e = "NotFound"
IsBucketExists(e) == e = "BucketExists"

VARIABLES
  claim,    \* the OBC in the store: Nil or [bound, rv, phase]
  ob,       \* the OB in the store: Nil or [via, empty]
  secret,   \* the Secret exists in the store
  cm,       \* the ConfigMap exists in the store
  class,    \* the StorageClass: Nil or [dynamic, provisioner]
  name,     \* the name NewObjectBucketClaimReconciler was given
  rv,       \* last resourceVersion the store handed out
  pc,       \* pc[p]: position of worker p inside Reconcile
  loc,      \* loc[p]: the local variables of the pass worker p runs
  calls,    \* calls[p]: plugin calls made by the current pass of p
  created,  \* created[p]: record kinds the current pass of p created
  removed,  \* removed[p]: record kinds the current pass of p deleted
  delFailed,\* delFailed[p]: record kinds whose delete failed in this pass
  last,     \* outcome of the last finished pass, "changed" after a user edit
  passes,   \* Reconcile calls started so far
  claimsMade,\* claims the user created so far
  faults    \* injected failures still available

vars == <<claim, ob, secret, cm, class, name, rv, pc, loc, calls, created,
          removed, delFailed, last, passes, claimsMade, faults>>

store   == <<claim, ob, secret, cm, class>>
records == <<ob, secret, cm>>
hist    == <<calls, created, removed, delFailed>>

NoCalls == [Provision |-> 0, Grant |-> 0, Delete |-> 0, Revoke |-> 0]

\* locals of handleProvisionClaim / handleDeleteClaim and the pass result
InitLoc == [flow |-> "none",      \* which branch of Reconcile the pass took
            after |-> "none",     \* outcome of the pass that ran before it
            dyn |-> FALSE,        \* isDynamicProvisioning / newBkt
            obcRv |-> 0,          \* resourceVersion of the obc it holds
            ob |-> Nil,           \* ob
            secret |-> FALSE,     \* secret != nil
            configMap |-> FALSE,  \* configMap != nil
            err |-> NilErr,       \* err
            failedAt |-> "none",  \* step whose failure ended the pass
            clean |-> TRUE,       \* no failure was injected into this pass
            ret |-> "none"]       \* error Reconcile returned: NilErr or "err"
                                  \* ("panic": it did not return)

Init ==
  /\ claim = Nil /\ ob = Nil /\ secret = FALSE /\ cm = FALSE
  /\ class \in {Nil} \cup [dynamic : BOOLEAN, provisioner : ClassProvisioners]
  /\ name \in RegisteredNames
  /\ rv = 0
  /\ pc = [p \in Procs |-> "idle"]
  /\ loc = [p \in Procs |-> InitLoc]
  /\ calls = [p \in Procs |-> NoCalls]
  /\ created = [p \in Procs |-> {}]
  /\ removed = [p \in Procs |-> {}]
  /\ delFailed = [p \in Procs |-> {}]
  /\ last = "none"
  /\ passes = 0
  /\ claimsMade = 0
  /\ faults = MaxFaults


\* ---------------------------------------------------------------- helpers
NoFault  == faults' = faults
UseFault == faults > 0 /\ faults' = faults - 1

Goto(p, label, l) ==
  /\ pc' = [pc EXCEPT ![p] = label]
  /\ loc' = [loc EXCEPT ![p] = l]
  /\ last' = last

\* Reconcile returns (done, r); outcome is what the next pass finds behind it
Return(p, l, r, outcome) ==
  /\ pc' = [pc EXCEPT ![p] = "done"]
  /\ loc' = [loc EXCEPT ![p] = [l EXCEPT !.ret = r]]
  /\ last' = outcome

Faulty(l) == [l EXCEPT !.clean = FALSE]
Failed(l, e, step) == [l EXCEPT !.err = e, !.failedAt = step]

Call(p, verb) == calls' = [calls EXCEPT ![p][verb] = @ + 1]

\* ------------------------------------------------ pure parts of the code
\* shouldProvision: the claim has no ObjectBucket assigned yet
shouldProvision(obc) == ~obc.bound

\* scForNewBkt: the class names no existing bucket, a new one must be made
scForNewBkt(c) == c.dynamic

\* supportedProvisioner (r.provisionerName is strings.ToLower(name))
provisionerName == ToLower(name)
supportedProvisioner(provisioner) == provisioner = provisionerName

\* Reconcile: `if !shouldProvision(obc) { return done, nil }`
ReconcileSkips(obc) == ~shouldProvision(obc)

\* handleProvisionClaim: Provision for a new bucket, Grant otherwise
ProvisionVerb(isDynamicProvisioning) ==
  IF isDynamicProvisioning THEN "Provision" ELSE "Grant"

\* handleProvisionClaim: `ob == (&v1alpha1.ObjectBucket{})` compares the
\* pointer ob with the address of a value allocated in the comparison itself
EqualsFreshAlloc(o) == FALSE

\* handleProvisionClaim: after the plugin call the binding is named and
\* persisted first (lines 201-208), before the Secret and the ConfigMap
AfterInvokePluginSkipsBinding == "p_createSecret"
AfterInvokePlugin == "p_createOB"

\* handleProvisionClaim, lines 169-171: an empty bucket name ends the pass
OnBucketNameUnchecked(isEmpty) == "p_plugin"
OnBucketName(isEmpty) == IF isEmpty THEN "return" ELSE "p_plugin"

\* the deferred closure: condition under which provisioner.Delete(ob) runs
DeferCallsDelete(err, o, isDynamicProvisioning) ==
  ~IsBucketExists(err) /\ o # Nil /\ isDynamicProvisioning

\* handleProvisionClaim: obc.Spec.ObjectBucketName = ob.Name; BucketName = ..
BoundClaimUnset(obc, newRv) == [obc EXCEPT !.rv = newRv]
BoundClaim(obc, newRv) == [obc EXCEPT !.bound = TRUE, !.rv = newRv]

\* deleteResources: the order in which it deletes the records
deleteResourcesSkipsSecret == <<"ob", "cm">>
deleteResourcesOrder == <<"ob", "secret", "cm">>

\* handleDeleteClaim: Delete for a new-bucket class, Revoke otherwise
DeprovisionVerbSwapped(newBkt) == IF newBkt THEN "Revoke" ELSE "Delete"
DeprovisionVerb(newBkt) == IF newBkt THEN "Delete" ELSE "Revoke"

\* handleDeleteClaim: a plugin error returns, success goes on to delete the OB
DeprovAfterPluginIgnoresErr(err) == "d_delOB"
DeprovAfterPlugin(err) == IF err # NilErr THEN "return" ELSE "d_delOB"

\* handleDeleteClaim: what it does with the error of objectBucketForClaimKey
DeprovOnGetObErr(err) == IF IsNotFound(err) THEN NilErr ELSE "err"

\* objectBucketForClaimKey: the error it returns for the error Get gave
objectBucketForClaimKeyErr(getErr) == Wrap(getErr)

\* ---------------------------------------------------------- the user side
UserCreateClaim ==
  /\ claim = Nil /\ claimsMade < MaxClaims
  /\ claimsMade' = claimsMade + 1
  /\ rv' = rv + 1
  /\ claim' = [bound |-> FALSE, rv |-> rv + 1, phase |-> "Pending"]
  /\ last' = "changed"
  /\ UNCHANGED <<ob, secret, cm, class, name, pc, loc, hist, passes, faults>>

UserDeleteClaim ==
  /\ claim # Nil
  /\ claim' = Nil
  /\ last' = "changed"
  /\ UNCHANGED <<ob, secret, cm, class, name, rv, pc, loc, hist, passes,
                 claimsMade, faults>>

AdminDeleteClass ==
  /\ class # Nil
  /\ class' = Nil
  /\ last' = "changed"
  /\ UNCHANGED <<claim, ob, secret, cm, name, rv, pc, loc, hist, passes,
                 claimsMade, faults>>

\* ------------------------------------------------------------- Reconcile
\* Reconcile, lines 77-110: fetch the claim and choose the branch
Reconcile_fetch(p) ==
  /\ pc[p] \in {"idle", "done"}
  /\ calls' = [calls EXCEPT ![p] = NoCalls]
  /\ created' = [created EXCEPT ![p] = {}]
  /\ removed' = [removed EXCEPT ![p] = {}]
  /\ delFailed' = [delFailed EXCEPT ![p] = {}]
  /\ LET l == [InitLoc EXCEPT !.after = last] IN
       \/ /\ claim = Nil /\ NoFault
          /\ Goto(p, "d_getCM", [l EXCEPT !.flow = "deprovision"])
       \/ /\ claim # Nil /\ ReconcileSkips(claim) /\ NoFault
          /\ Return(p, [l EXCEPT !.flow = "skip"], NilErr, "other")
       \/ /\ claim # Nil /\ ~ReconcileSkips(claim) /\ NoFault
          /\ Goto(p, "r_class",
                  [l EXCEPT !.flow = "provision", !.obcRv = claim.rv])
       \/ /\ UseFault
          /\ Return(p, Faulty([l EXCEPT !.flow = "error"]), "err", "other")
  /\ UNCHANGED <<store, name, rv, claimsMade>>

\* a delivery of the claim identity, counted
Reconcile_claimForKey(p) ==
  /\ passes < MaxPasses
  /\ passes' = passes + 1
  /\ Reconcile_fetch(p)

\* The dispatcher delivers the identity after an event on the claim and again
\* after every pass that returned an error (return done, err at lines 99, 102);
\* the count of passes saturates
Redeliver(p) ==
  /\ last = "changed" \/ loc[p].ret = "err"
  /\ passes' = IF passes < MaxPasses THEN passes + 1 ELSE passes
  /\ Reconcile_fetch(p)

\* Reconcile, lines 111-119: resolve the class and the provisioning mode
Reconcile_storageClassForClaim(p) ==
  /\ pc[p] = "r_class"
  /\ LET l == loc[p] IN
       \/ /\ class = Nil /\ NoFault
          /\ Return(p, Failed(l, "NotFound", "ResolveClass"), "err", "other")
       \/ /\ class # Nil /\ ~supportedProvisioner(class.provisioner)
          /\ NoFault
          /\ Return(p, [l EXCEPT !.flow = "unsupported"], NilErr, "other")
       \/ /\ class # Nil /\ supportedProvisioner(class.provisioner)
          /\ NoFault
          /\ Goto(p, "p_claim", [l EXCEPT !.dyn = scForNewBkt(class)])
       \/ /\ UseFault
          /\ Return(p, Faulty(Failed(l, "Store", "ResolveClass")), "err",
                    "other")
  /\ UNCHANGED <<store, name, rv, hist, passes, claimsMade>>

\* -------------------------------------------------- handleProvisionClaim
\* lines 139-175: re-fetch the claim, compose the bucket name, re-check
handleProvisionClaim_claimForKey(p) ==
  /\ pc[p] = "p_claim"
  /\ LET l == loc[p] IN
       \/ /\ claim = Nil /\ NoFault
          /\ Return(p, Failed(l, "NotFound", "ResolveClaim"), "err", "other")
       \/ /\ UseFault
          /\ Return(p, Faulty(Failed(l, "Store", "ResolveClaim")), "err",
                    "other")
       \/ /\ claim # Nil /\ l.dyn /\ UseFault
          \* composeBucketName fails: err is set, the deferred closure runs
          /\ Goto(p, "c_plugin",
                  Faulty(Failed([l EXCEPT !.obcRv = claim.rv],
                                "Compose", "ComposeName")))
       \/ /\ claim # Nil /\ l.dyn /\ UseFault
          \* empty bucket name: err is still nil, the closure does nothing
          /\ LET ll == Faulty([l EXCEPT !.obcRv = claim.rv,
                                        !.failedAt = "ComposeName"]) IN
               IF OnBucketName(TRUE) = "return"
                 THEN Return(p, ll, "err", "other")
                 ELSE Goto(p, OnBucketName(TRUE), ll)
       \/ /\ claim # Nil /\ ~shouldProvision(claim) /\ NoFault
          /\ Return(p, [l EXCEPT !.obcRv = claim.rv, !.flow = "bound"],
                    NilErr, "other")
       \/ /\ claim # Nil /\ shouldProvision(claim) /\ NoFault
          /\ Goto(p, OnBucketName(FALSE), [l EXCEPT !.obcRv = claim.rv])
  /\ UNCHANGED <<store, name, rv, hist, passes, claimsMade>>

\* lines 184-199: Provision or Grant
handleProvisionClaim_plugin(p) ==
  /\ pc[p] = "p_plugin"
  /\ LET l == loc[p]
         verb == ProvisionVerb(l.dyn) IN
       /\ Call(p, verb)
       /\ \/ /\ NoFault
             /\ Goto(p, AfterInvokePlugin,
                     [l EXCEPT !.ob = [via |-> verb, empty |-> FALSE]])
          \/ /\ UseFault
             \* success with a zero-value ObjectBucket
             /\ LET o == [via |-> verb, empty |-> TRUE] IN
                  IF EqualsFreshAlloc(o)
                    THEN Return(p, Faulty([l EXCEPT !.ob = o,
                                            !.failedAt = "InvokePlugin"]),
                                "err", "other")
                    ELSE Goto(p, AfterInvokePlugin,
                              Faulty([l EXCEPT !.ob = o]))
          \/ /\ UseFault
             \* success with a nil ObjectBucket: line 197 does not catch it
             \* and line 202 dereferences it; the pass ends in a panic (the
             \* deferred closure sees err == nil and does nothing)
             /\ IF EqualsFreshAlloc(Nil)
                  THEN Return(p, Faulty([l EXCEPT !.failedAt = "InvokePlugin"]),
                              "err", "other")
                  ELSE Return(p, Faulty([l EXCEPT !.failedAt = "InvokePlugin"]),
                              "panic", "other")
          \/ /\ UseFault
             /\ \E e \in {"Plugin", "BucketExists"} :
                \E o \in {Nil, [via |-> verb, empty |-> FALSE]} :
                  Goto(p, "c_plugin",
                       Faulty(Failed([l EXCEPT !.ob = o], e, "InvokePlugin")))
  /\ UNCHANGED <<store, name, rv, created, removed, delFailed, passes,
                 claimsMade>>


\* What a create helper hands back when it gives up: the helper's failure
\* result is either nil or the object it was asked to create.
FailResult(x) == {Nil, x}

\* createObjectBucket (create, confirm visible): the error it returns for
\* the error the store's Create gave; AlreadyExists is taken as success and
\* the existing object is fetched
createObjectBucketErr(createErr) ==
  IF createErr = "AlreadyExists" THEN NilErr ELSE createErr

\* lines 206-208: `if ob, err = createObjectBucket(..); err != nil { return err }`
AfterCreateObjectBucketInverted(err) ==
  IF err = NilErr THEN "c_plugin" ELSE "p_createSecret"
AfterCreateObjectBucket(err) ==
  IF err # NilErr THEN "c_plugin" ELSE "p_createSecret"

\* lines 201-208: name the binding and persist it (createObjectBucket).
\* The err of claimRefForKey (line 203) is overwritten here before any use.
handleProvisionClaim_createObjectBucket(p) ==
  /\ pc[p] = "p_createOB"
  /\ LET l == loc[p] IN
       \/ /\ ob = Nil /\ NoFault
          /\ ob' = l.ob
          /\ created' = [created EXCEPT ![p] = @ \cup {"ob"}]
          /\ Goto(p, AfterCreateObjectBucket(createObjectBucketErr(NilErr)), l)
       \/ /\ ob # Nil /\ NoFault
          \* the store answers AlreadyExists
          /\ UNCHANGED <<ob, created>>
          /\ LET e == createObjectBucketErr("AlreadyExists") IN
               IF e = NilErr
                 THEN Goto(p, AfterCreateObjectBucket(e), [l EXCEPT !.ob = ob])
                 ELSE \E r \in FailResult(l.ob) :
                        Goto(p, AfterCreateObjectBucket(e),
                             Failed([l EXCEPT !.ob = r], e, "PersistBinding"))
       \/ /\ UseFault
          /\ UNCHANGED <<ob, created>>
          /\ \E r \in FailResult(l.ob) :
               Goto(p, AfterCreateObjectBucket(createObjectBucketErr("Store")),
                    Faulty(Failed([l EXCEPT !.ob = r], "Store",
                                  "PersistBinding")))
  /\ UNCHANGED <<claim, secret, cm, class, name, rv, calls, removed,
                 delFailed, passes, claimsMade>>

\* lines 210-212: createSecret
handleProvisionClaim_createSecret(p) ==
  /\ pc[p] = "p_createSecret"
  /\ LET l == loc[p] IN
       \/ /\ ~secret /\ NoFault
          /\ secret' = TRUE
          /\ created' = [created EXCEPT ![p] = @ \cup {"secret"}]
          /\ Goto(p, "p_createCM", [l EXCEPT !.secret = TRUE])
       \/ /\ secret /\ NoFault
          /\ UNCHANGED <<secret, created>>
          /\ Goto(p, "p_createCM", [l EXCEPT !.secret = TRUE])
       \/ /\ UseFault
          /\ UNCHANGED <<secret, created>>
          /\ \E r \in BOOLEAN :
               Goto(p, "c_plugin",
                    Faulty(Failed([l EXCEPT !.secret = r], "Store",
                                  "PersistCredentials")))
  /\ UNCHANGED <<claim, ob, cm, class, name, rv, calls, removed, delFailed,
                 passes, claimsMade>>

\* lines 214-216: createConfigMap
handleProvisionClaim_createConfigMap(p) ==
  /\ pc[p] = "p_createCM"
  /\ LET l == loc[p] IN
       \/ /\ ~cm /\ NoFault
          /\ cm' = TRUE
          /\ created' = [created EXCEPT ![p] = @ \cup {"cm"}]
          /\ Goto(p, "p_update", [l EXCEPT !.configMap = TRUE])
       \/ /\ cm /\ NoFault
          /\ UNCHANGED <<cm, created>>
          /\ Goto(p, "p_update", [l EXCEPT !.configMap = TRUE])
       \/ /\ UseFault
          /\ UNCHANGED <<cm, created>>
          /\ \E r \in BOOLEAN :
               Goto(p, "c_plugin",
                    Faulty(Failed([l EXCEPT !.configMap = r], "Store",
                                  "PersistConnectionInfo")))
  /\ UNCHANGED <<claim, ob, secret, class, name, rv, calls, removed,
                 delFailed, passes, claimsMade>>

\* updateClaim: the store's answer to an Update of the obc the pass holds;
\* an obc whose resourceVersion is no longer the stored one is refused
updateClaimErr(heldRv) ==
  IF claim = Nil THEN "NotFound"
  ELSE IF claim.rv # heldRv THEN "Conflict"
  ELSE NilErr

\* lines 220-224: `if err = updateClaim(..); err != nil { return err }`,
\* where returning with err set runs the cleanup of the deferred closure
AfterUpdateClaimInverted(err) == IF err = NilErr THEN "c_plugin" ELSE "return"
AfterUpdateClaim(err) == IF err # NilErr THEN "c_plugin" ELSE "return"

\* lines 218-224: write the binding reference into the claim (updateClaim)
handleProvisionClaim_updateClaim(p) ==
  /\ pc[p] = "p_update"
  /\ LET l == loc[p] IN
       \/ /\ updateClaimErr(l.obcRv) = NilErr /\ NoFault
          /\ rv' = rv + 1
          /\ claim' = BoundClaim(claim, rv + 1)
          /\ IF AfterUpdateClaim(NilErr) = "return"
               THEN Return(p, l, NilErr, "provOK")
               ELSE Goto(p, AfterUpdateClaim(NilErr),
                         [l EXCEPT !.failedAt = "UpdateClaim"])
       \/ /\ updateClaimErr(l.obcRv) # NilErr /\ NoFault
          /\ UNCHANGED <<claim, rv>>
          /\ LET e == updateClaimErr(l.obcRv) IN
               IF AfterUpdateClaim(e) = "return"
                 THEN Return(p, Failed(l, e, "UpdateClaim"), NilErr, "other")
                 ELSE Goto(p, AfterUpdateClaim(e), Failed(l, e, "UpdateClaim"))
       \/ /\ UseFault
          /\ UNCHANGED <<claim, rv>>
          /\ LET ll == Faulty(Failed(l, "Store", "UpdateClaim")) IN
               IF AfterUpdateClaim("Store") = "return"
                 THEN Return(p, ll, NilErr, "other")
                 ELSE Goto(p, AfterUpdateClaim("Store"), ll)
  /\ UNCHANGED <<ob, secret, cm, class, name, hist, passes, claimsMade>>

\* lines 149-157: the deferred closure, entered with err != nil
defer_Delete(p) ==
  /\ pc[p] = "c_plugin"
  /\ LET l == loc[p] IN
       IF DeferCallsDelete(l.err, l.ob, l.dyn)
         THEN /\ Call(p, "Delete")
              /\ \/ NoFault /\ Goto(p, "c_del1", l)
                 \/ UseFault /\ Goto(p, "c_del1", Faulty(l))
         ELSE /\ NoFault
              /\ UNCHANGED calls
              /\ Goto(p, "c_del1", l)
  /\ UNCHANGED <<store, name, rv, created, removed, delFailed, passes,
                 claimsMade>>

\* deleteResources, lines 317-327: its i-th delete; after the last one the
\* deferred closure is over and handleProvisionClaim returns its error
CleanPc == <<"c_del1", "c_del2", "c_del3">>
Holds(l, k) == CASE k = "ob" -> l.ob # Nil
                 [] k = "secret" -> l.secret
                 [] k = "cm" -> l.configMap
InStore(k) == CASE k = "ob" -> ob # Nil
                [] k = "secret" -> secret
                [] k = "cm" -> cm
Drop(k) ==
  /\ ob' = IF k = "ob" THEN Nil ELSE ob
  /\ secret' = IF k = "secret" THEN FALSE ELSE secret
  /\ cm' = IF k = "cm" THEN FALSE ELSE cm

deleteResources_step(p, i) ==
  /\ pc[p] = CleanPc[i]
  /\ LET l == loc[p]
         after(ll) == IF i = Len(CleanPc)
                        THEN Return(p, ll, "err", "other")
                        ELSE Goto(p, CleanPc[i + 1], ll) IN
       IF i > Len(deleteResourcesOrder)
         THEN /\ NoFault /\ UNCHANGED <<records, removed, delFailed>>
              /\ after(l)
         ELSE LET k == deleteResourcesOrder[i] IN
           \/ /\ ~Holds(l, k) /\ NoFault
              \* delete of a nil object does nothing
              /\ UNCHANGED <<records, removed, delFailed>>
              /\ after(l)
           \/ /\ Holds(l, k) /\ InStore(k) /\ NoFault
              /\ Drop(k)
              /\ removed' = [removed EXCEPT ![p] = @ \cup {k}]
              /\ UNCHANGED delFailed
              /\ after(l)
           \/ /\ Holds(l, k) /\ ~InStore(k) /\ NoFault
              \* NotFound: logged
              /\ UNCHANGED <<records, removed, delFailed>>
              /\ after(l)
           \/ /\ Holds(l, k) /\ UseFault
              \* the delete fails: logged
              /\ delFailed' = [delFailed EXCEPT ![p] = @ \cup {k}]
              /\ UNCHANGED <<records, removed>>
              /\ after(Faulty(l))
  /\ UNCHANGED <<claim, class, name, rv, calls, created, passes, claimsMade>>


\* ----------------------------------------------------- handleDeleteClaim
\* lines 231-239 (k = "cm") and 241-249 (k = "secret"): fetch the record;
\* any error of the fetch is logged and the record is skipped
DGetPc == [cm |-> "d_getCM", secret |-> "d_getSecret"]
DDelPc == [cm |-> "d_delCM", secret |-> "d_delSecret"]
DNextPc == [cm |-> "d_getSecret", secret |-> "d_getOB"]

handleDeleteClaim_get(p, k) ==
  /\ pc[p] = DGetPc[k]
  /\ LET l == loc[p] IN
       \/ /\ InStore(k) /\ NoFault
          /\ Goto(p, DDelPc[k], l)
       \/ /\ ~InStore(k) /\ NoFault
          /\ Goto(p, DNextPc[k], l)
       \/ /\ UseFault
          /\ Goto(p, DNextPc[k], Faulty(l))
  /\ UNCHANGED <<store, name, rv, hist, passes, claimsMade>>

\* lines 233-236 and 243-246: delete the fetched record; an error returns
handleDeleteClaim_delete(p, k) ==
  /\ pc[p] = DDelPc[k]
  /\ LET l == loc[p] IN
       \/ /\ InStore(k) /\ NoFault
          /\ Drop(k)
          /\ removed' = [removed EXCEPT ![p] = @ \cup {k}]
          /\ UNCHANGED delFailed
          /\ Goto(p, DNextPc[k], l)
       \/ /\ ~InStore(k) /\ NoFault
          /\ UNCHANGED <<records, removed, delFailed>>
          /\ Return(p, Failed(l, "NotFound", "Delete_" \o k), "err", "other")
       \/ /\ UseFault
          /\ delFailed' = [delFailed EXCEPT ![p] = @ \cup {k}]
          /\ UNCHANGED <<records, removed>>
          /\ Return(p, Faulty(Failed(l, "Store", "Delete_" \o k)), "err",
                    "other")
  /\ UNCHANGED <<claim, class, name, rv, calls, created, passes, claimsMade>>

\* lines 251-261 with objectBucketForClaimKey, lines 295-306
handleDeleteClaim_objectBucketForClaimKey(p) ==
  /\ pc[p] = "d_getOB"
  /\ LET l == loc[p]
         fail(ll, getErr) ==
           LET e == objectBucketForClaimKeyErr(getErr) IN
             Return(p, Failed(ll, e, "FetchBinding"), DeprovOnGetObErr(e),
                    "other") IN
       \/ /\ ob # Nil /\ NoFault
          /\ Goto(p, "d_class", [l EXCEPT !.ob = ob])
       \/ /\ ob = Nil /\ NoFault
          /\ fail(l, "NotFound")
       \/ /\ UseFault
          /\ fail(Faulty(l), "Store")
  /\ UNCHANGED <<store, name, rv, hist, passes, claimsMade>>

\* lines 263-267: the class of the OB decides between Delete and Revoke
handleDeleteClaim_storageClassForOB(p) ==
  /\ pc[p] = "d_class"
  /\ LET l == loc[p] IN
       \/ /\ class # Nil /\ NoFault
          /\ Goto(p, "d_plugin", [l EXCEPT !.dyn = scForNewBkt(class)])
       \/ /\ class = Nil /\ NoFault
          /\ Return(p, Failed(l, "NotFound", "ResolveClass"), "err", "other")
       \/ /\ UseFault
          /\ Return(p, Faulty(Failed(l, "Store", "ResolveClass")), "err",
                    "other")
  /\ UNCHANGED <<store, name, rv, hist, passes, claimsMade>>

\* lines 269-279: Delete or Revoke
handleDeleteClaim_plugin(p) ==
  /\ pc[p] = "d_plugin"
  /\ LET l == loc[p]
         after(ll) == IF DeprovAfterPlugin(ll.err) = "return"
                        THEN Return(p, ll, "err", "other")
                        ELSE Goto(p, DeprovAfterPlugin(ll.err), ll) IN
       /\ Call(p, DeprovisionVerb(l.dyn))
       /\ \/ NoFault /\ after(l)
          \/ UseFault /\ after(Faulty(Failed(l, "Plugin", "Deprovision")))
  /\ UNCHANGED <<store, name, rv, created, removed, delFailed, passes,
                 claimsMade>>

\* lines 281-288: delete the binding; NotFound is taken as done
handleDeleteClaim_deleteObjectBucket(p) ==
  /\ pc[p] = "d_delOB"
  /\ LET l == loc[p] IN
       \/ /\ ob # Nil /\ NoFault
          /\ Drop("ob")
          /\ removed' = [removed EXCEPT ![p] = @ \cup {"ob"}]
          /\ UNCHANGED delFailed
          /\ Return(p, l, NilErr, "other")
       \/ /\ ob = Nil /\ NoFault
          /\ UNCHANGED <<records, removed, delFailed>>
          /\ Return(p, l, NilErr, "other")
       \/ /\ UseFault
          /\ delFailed' = [delFailed EXCEPT ![p] = @ \cup {"ob"}]
          /\ UNCHANGED <<records, removed>>
          /\ Return(p, Faulty(Failed(l, "Store", "Delete_ob")), "err",
                    "other")
  /\ UNCHANGED <<claim, class, name, rv, calls, created, passes, claimsMade>>

\* ---------------------------------------------------------- specification
Step(p) ==
  \/ Reconcile_claimForKey(p)
  \/ Reconcile_storageClassForClaim(p)
  \/ handleProvisionClaim_claimForKey(p)
  \/ handleProvisionClaim_plugin(p)
  \/ handleProvisionClaim_createObjectBucket(p)
  \/ handleProvisionClaim_createSecret(p)
  \/ handleProvisionClaim_createConfigMap(p)
  \/ handleProvisionClaim_updateClaim(p)
  \/ defer_Delete(p)
  \/ \E i \in 1..Len(CleanPc) : deleteResources_step(p, i)
  \/ \E k \in {"cm", "secret"} : handleDeleteClaim_get(p, k)
  \/ \E k \in {"cm", "secret"} : handleDeleteClaim_delete(p, k)
  \/ handleDeleteClaim_objectBucketForClaimKey(p)
  \/ handleDeleteClaim_storageClassForOB(p)
  \/ handleDeleteClaim_plugin(p)
  \/ handleDeleteClaim_deleteObjectBucket(p)

User == UserCreateClaim \/ UserDeleteClaim \/ AdminDeleteClass

Running(p) == pc[p] \notin {"idle", "done"}

\* The dispatcher hands the claim identity to one worker, one pass at a time
Worker == CHOOSE p \in Procs : \A q \in Procs : p <= q
Next == User \/ Step(Worker)
Spec == Init /\ [][Next]_vars

\* Duplicate delivery: two passes on the claim identity run concurrently
ConcFaults == 0     \* injected failures in the concurrent runs
InitConc ==
  /\ claim = Nil /\ ob = Nil /\ secret = FALSE /\ cm = FALSE
  /\ class \in [dynamic : BOOLEAN, provisioner : {<<"o", "b">>}]
  /\ name = <<"o", "b">>
  /\ rv = 0
  /\ pc = [p \in Procs |-> "idle"]
  /\ loc = [p \in Procs |-> InitLoc]
  /\ calls = [p \in Procs |-> NoCalls]
  /\ created = [p \in Procs |-> {}]
  /\ removed = [p \in Procs |-> {}]
  /\ delFailed = [p \in Procs |-> {}]
  /\ last = "none"
  /\ passes = 0
  /\ claimsMade = MaxClaims - 1
  /\ faults = ConcFaults
NextConc == User \/ \E p \in Procs : Step(p)
SpecConc == InitConc /\ [][NextConc]_vars

\* Deprovisioning under re-delivery: the claim was bound by a pass that
\* succeeded, the user deletes it, the worker runs every pass to its end and
\* the dispatcher re-delivers after each error; failures are finitely many
InitLive ==
  /\ class \in [dynamic : BOOLEAN, provisioner : {<<"o", "b">>}]
  /\ name = <<"o", "b">>
  /\ rv = 2
  /\ claim = [rv |-> 2, bound |-> TRUE, phase |-> "Pending"]
  /\ ob = [via |-> ProvisionVerb(scForNewBkt(class)), empty |-> FALSE]
  /\ secret = TRUE /\ cm = TRUE
  /\ pc = [p \in Procs |-> IF p = Worker THEN "done" ELSE "idle"]
  /\ loc = [p \in Procs |->
              IF p = Worker
                THEN [InitLoc EXCEPT !.flow = "provision",
                                     !.after = "changed",
                                     !.dyn = scForNewBkt(class),
                                     !.obcRv = 1,
                                     !.ob = ob,
                                     !.secret = TRUE,
                                     !.configMap = TRUE,
                                     !.ret = NilErr]
                ELSE InitLoc]
  /\ calls = [p \in Procs |->
                IF p = Worker
                  THEN [NoCalls EXCEPT
                          ![ProvisionVerb(scForNewBkt(class))] = 1]
                  ELSE NoCalls]
  /\ created = [p \in Procs |->
                  IF p = Worker THEN {"ob", "secret", "cm"} ELSE {}]
  /\ removed = [p \in Procs |-> {}]
  /\ delFailed = [p \in Procs |-> {}]
  /\ last = "provOK"
  /\ passes = 1
  /\ claimsMade = 1
  /\ faults = MaxFaults
StepLive(p) ==
  \/ Redeliver(p)
  \/ \E k \in {"cm", "secret"} : handleDeleteClaim_get(p, k)
  \/ \E k \in {"cm", "secret"} : handleDeleteClaim_delete(p, k)
  \/ handleDeleteClaim_objectBucketForClaimKey(p)
  \/ handleDeleteClaim_storageClassForOB(p)
  \/ handleDeleteClaim_plugin(p)
  \/ handleDeleteClaim_deleteObjectBucket(p)
NextLive == UserDeleteClaim \/ StepLive(Worker)
SpecLive == InitLive /\ [][NextLive]_vars /\ WF_vars(StepLive(Worker))

\* ------------------------------------------------------------ properties
Moves(p)      == pc'[p] # pc[p]                  \* the step is one of pass p
ReturnsNow(p) == pc[p] # "done" /\ pc'[p] = "done"
PluginDeprovCalls(p) == calls[p].Delete + calls[p].Revoke
PersistSteps == {"PersistBinding", "PersistCredentials",
                 "PersistConnectionInfo", "UpdateClaim"}

\* C1: in a deprovision pass the binding record is removed only after the
\* plugin Delete/Revoke call of that pass has been made and has succeeded;
\* when that call returns an error, the pass returns an error and the
\* binding record is still in the store as the pass ends.
C1_DeletionOrdering ==
  [][\A p \in Procs :
       loc[p].flow = "deprovision" /\ Moves(p) =>
         /\ (ob # Nil /\ ob' = Nil) =>
              (PluginDeprovCalls(p) = 1 /\ loc[p].err = NilErr)
         /\ (ReturnsNow(p) /\ loc'[p].failedAt = "Deprovision") =>
              (loc'[p].ret = "err" /\ ob' # Nil)]_vars

C1_Witness ==
  \E p \in Procs :
    /\ pc[p] = "done" /\ loc[p].flow = "deprovision"
    /\ loc[p].failedAt = "Deprovision" /\ loc[p].ret = "err"
    /\ PluginDeprovCalls(p) = 1 /\ ob # Nil

\* C2 as stated: a provision pass that fails at binding persistence or later
\* returns with none of the records it created left in the store.
C2_NothingRemains ==
  [][\A p \in Procs :
       (ReturnsNow(p) /\ loc'[p].failedAt \in PersistSteps) =>
         \A k \in created'[p] : ~InStore(k)']_vars

\* C2 amended: a provision pass that fails at binding persistence or later
\* returns with every record it created removed from the store, except a
\* record whose delete call in the cleanup failed.
C2_RemovedUnlessDeleteFailed ==
  [][\A p \in Procs :
       (ReturnsNow(p) /\ loc'[p].failedAt \in PersistSteps) =>
         \A k \in created'[p] \ delFailed'[p] : ~InStore(k)']_vars

C2_Witness ==
  \E p \in Procs :
    /\ pc[p] = "done" /\ loc[p].failedAt = "PersistConnectionInfo"
    /\ created[p] = {"ob", "secret"} /\ removed[p] = {"ob", "secret"}
    /\ delFailed[p] = {} /\ ob = Nil /\ ~secret /\ ~cm

\* C3 as stated: a provision pass that fails at binding persistence or later
\* has called plugin Delete exactly once if it is dynamic, and neither Delete
\* nor Revoke if it is static.
C3_DeleteOnceOnFailure ==
  [][\A p \in Procs :
       (ReturnsNow(p) /\ loc'[p].failedAt \in PersistSteps) =>
         IF loc'[p].dyn
           THEN calls'[p].Delete = 1
           ELSE calls'[p].Delete = 0 /\ calls'[p].Revoke = 0]_vars

\* C4: a deprovision pass working on a binding made by Provision calls
\* Delete and never Revoke; on a binding made by Grant it calls Revoke and
\* never Delete.
C4_ModeConsistency ==
  \A p \in Procs :
    (loc[p].flow = "deprovision" /\ loc[p].ob # Nil) =>
      LET right == IF loc[p].ob.via = "Provision" THEN "Delete" ELSE "Revoke"
          wrong == IF loc[p].ob.via = "Provision" THEN "Revoke" ELSE "Delete"
      IN /\ calls[p][wrong] = 0
         /\ calls[p][right] <= 1
         /\ pc[p] = "d_delOB" => calls[p][right] = 1

C4_Witness ==
  \E p \in Procs :
    /\ pc[p] = "done" /\ loc[p].flow = "deprovision" /\ loc[p].ret = NilErr
    /\ loc[p].ob # Nil /\ loc[p].ob.via = "Provision"
    /\ calls[p].Delete = 1 /\ calls[p].Revoke = 0 /\ ob = Nil

C6_ConcurrentPassesSafe ==
  ( /\ \A p \in Procs :
         /\ pc[p] = "done" /\ loc[p].clean
         /\ loc[p].flow \in {"provision", "bound", "skip"}
    /\ passes = Cardinality(Procs) /\ faults = ConcFaults
    /\ claim # Nil /\ class # Nil )
  => ( /\ \A p \in Procs : loc[p].ret = NilErr
       /\ ob # Nil /\ secret /\ cm )

\* C7 as stated: a deprovision pass whose fetch of the binding reports
\* not-found returns no error and calls neither Delete nor Revoke.
C7_NotFoundIsSuccess ==
  [][\A p \in Procs :
       (pc[p] = "d_getOB" /\ ob = Nil /\ ReturnsNow(p) /\ faults' = faults) =>
         /\ loc'[p].ret = NilErr
         /\ calls'[p].Delete = 0 /\ calls'[p].Revoke = 0]_vars

\* C8 as stated: when a provision pass for a dynamic-mode class returns
\* success, Provision was called exactly once in it, the binding, the
\* credentials record and the connection-info record exist, and the claim's
\* phase is Bound.
C8_BoundAfterProvision ==
  [][\A p \in Procs :
       ( /\ ReturnsNow(p) /\ loc'[p].flow = "provision"
         /\ loc'[p].dyn /\ loc'[p].ret = NilErr ) =>
         /\ calls'[p].Provision = 1
         /\ ob' # Nil /\ secret' /\ cm'
         /\ claim' # Nil /\ claim'.phase = "Bound"]_vars

\* C9 as stated: in every state, a binding record that exists belongs to a
\* claim in phase Bound or to a deprovision pass in progress, and a claim in
\* phase Bound has its binding record.
Deprovisioning == \E p \in Procs : Running(p) /\ loc[p].flow = "deprovision"
ClaimIsBound == claim # Nil /\ claim.phase = "Bound"
C9_BindingIffBound ==
  /\ (ob # Nil) => (ClaimIsBound \/ Deprovisioning)
  /\ ClaimIsBound => (ob # Nil)

\* C10 as stated: no state has the binding already deleted by a pass while
\* the credentials record or the connection-info record still exists.
C10_BindingDeletedLast ==
  \A p \in Procs : "ob" \in removed[p] => (~secret /\ ~cm)


\* C11: a pass creates the credentials record or the connection-info record
\* only in its provision flow, after it persisted (or fetched) the binding,
\* and only while the binding record is in the store.
C11_BindingFirst ==
  [][\A p \in Procs :
       (Moves(p) /\ ((~secret /\ secret') \/ (~cm /\ cm'))) =>
         /\ loc[p].flow = "provision"
         /\ loc[p].ob # Nil /\ ob # Nil
         /\ loc[p].err = NilErr]_vars

C11_Witness ==
  \E p \in Procs :
    /\ pc[p] = "p_update" /\ created[p] = {"ob", "secret", "cm"}
    /\ ob # Nil /\ secret /\ cm


\* C12 as stated: a provision pass whose plugin call succeeded with an
\* empty ObjectBucket persists no record and returns an error.
C12_EmptyResultFails ==
  \A p \in Procs :
    ( /\ loc[p].flow = "provision" /\ loc[p].err = NilErr
      /\ loc[p].ob # Nil /\ loc[p].ob.empty ) =>
      /\ created[p] = {}
      /\ pc[p] = "done" => loc[p].ret = "err"


C14_NotOursIsSkipped ==
  [][\A p \in Procs :
       ( /\ pc[p] = "r_class" /\ Moves(p) /\ faults' = faults
         /\ (class = Nil \/ ~supportedProvisioner(class.provisioner)) ) =>
         /\ pc'[p] = "done" /\ loc'[p].ret = NilErr
         /\ calls'[p] = NoCalls
         /\ store' = store]_vars


\* C15: the only step of a provision pass that changes the claim record is
\* the one with which the pass returns success; a provision pass that
\* returns an error leaves a claim that still asks for provisioning, so the
\* next pass on it runs the provision flow again.
C15_ClaimUntouchedOnFailure ==
  [][\A p \in Procs :
       (Moves(p) /\ loc'[p].flow = "provision") =>
         /\ (claim' # claim) => (ReturnsNow(p) /\ loc'[p].ret = NilErr)
         /\ (ReturnsNow(p) /\ loc'[p].ret = "err" /\ claim' # Nil) =>
              (shouldProvision(claim') /\ ~ReconcileSkips(claim'))]_vars

C15_Witness ==
  \E p \in Procs :
    /\ pc[p] = "done" /\ loc[p].flow = "provision" /\ loc[p].ret = "err"
    /\ loc[p].failedAt = "UpdateClaim"
    /\ claim # Nil /\ ~claim.bound /\ claim.rv = loc[p].obcRv
    /\ claim.phase = "Pending"


\* C16 as stated: whatever happens to the fetch or the delete of the
\* connection-info and credentials records, a deprovision pass does not end
\* there: it goes on to the fetch of the binding.
C16_BestEffortRemoval ==
  [][\A p \in Procs :
       ( /\ pc[p] \in {"d_getCM", "d_delCM", "d_getSecret", "d_delSecret"}
         /\ Moves(p) ) =>
         pc'[p] # "done"]_vars

\* C17: a provision pass that ends because the re-fetched claim is gone or
\* because the bucket name is missing returns an error, has called no
\* plugin operation and has created no record.
C17_FailsBeforePlugin ==
  [][\A p \in Procs :
       ( /\ ReturnsNow(p)
         /\ loc'[p].failedAt \in {"ResolveClaim", "ComposeName"} ) =>
         /\ loc'[p].ret = "err"
         /\ calls'[p] = NoCalls
         /\ created'[p] = {} /\ removed'[p] = {}
         /\ store' = store]_vars

C17_Witness ==
  \E p \in Procs :
    /\ pc[p] = "done" /\ loc[p].flow = "provision" /\ loc[p].ret = "err"
    /\ loc[p].failedAt = "ComposeName" /\ loc[p].err = NilErr
    /\ calls[p] = NoCalls /\ created[p] = {}
    /\ claim # Nil /\ ob = Nil /\ ~secret /\ ~cm

\* C18 as stated: a claim whose class names this provisioner, in whatever
\* letter case, is handled (its provision flow starts) and not skipped.
C18_CaseNormalisedFilter ==
  [][\A p \in Procs :
       ( /\ pc[p] = "r_class" /\ Moves(p) /\ faults' = faults
         /\ class # Nil /\ ToLower(class.provisioner) = ToLower(name) ) =>
         pc'[p] = "p_claim"]_vars


\* C19 as stated: while the claim carries the binding reference a successful
\* pass wrote and is not deleted, no step of the failure cleanup of a pass
\* removes the binding, the credentials record or the connection-info
\* record, and none calls plugin Delete.
InCleanup(p) == pc[p] \in {"c_plugin", "c_del1", "c_del2", "c_del3"}
C19_BoundRecordsStay ==
  [][\A p \in Procs :
       ( /\ claim # Nil /\ claim.bound /\ claim' = claim
         /\ InCleanup(p) /\ Moves(p) ) =>
         /\ records' = records
         /\ calls'[p].Delete = calls[p].Delete]_vars

\* C20 as stated: after the bound claim is deleted, with re-delivery after
\* every pass that returned an error and finitely many failures, eventually
\* the binding, the credentials record and the connection-info record are
\* all gone and a pass on the identity has returned no error.
Converged ==
  /\ ob = Nil /\ ~secret /\ ~cm
  /\ pc[Worker] = "done" /\ loc[Worker].ret = NilErr
C20_DeprovisionConverges == (claim = Nil) ~> Converged

====
